---------------------------- MODULE Spec2Model ----------------------------
(***************************************************************************)
(* A model of the microps core: the interrupt subsystem                    *)
(* (src/platform/linux/intr.c), the device registry, the protocol          *)
(* dispatcher and the stack facade (src/unnamed/part_001, declarations in  *)
(* src/unnamed/part_000).                                                  *)
(*                                                                         *)
(* Threads: the main thread (init, registration, run, shutdown), the       *)
(* interrupt worker (intr_thread) and one backend thread that raises IRQs  *)
(* and feeds frames.  Pointers are object identifiers, NULL is 0.  Loops   *)
(* over the protocol list are modelled one iteration per step, because     *)
(* the list the code builds lets them run forever.                         *)
(***************************************************************************)
EXTENDS Integers, Sequences, FiniteSets, TLC

\* ------------------------------------------------------------- bounds
MaxDevices == 2      \* device shells a backend may allocate and register
MaxIfaces == 3       \* family interfaces the host may allocate
MaxIrqs == 3         \* entries the IRQ list may hold
MaxProtos == 2       \* protocol entries the heap may hold
MaxFrames == 2       \* calls of net_input_handler
MaxShutdowns == 2    \* calls of net_shutdown that reach pthread_kill
MaxOutputs == 2      \* calls of ip_output that draw an id
RunLen == 65407      \* calls of ip_output in one uninterrupted run

\* ---------------------------------------------------- program constants
NULL == 0
NET_DEVICE_FLAG_UP == 1
NET_PROTOCOL_TYPE_IP == 2048
NET_PROTOCOL_TYPE_ARP == 2054
NET_IFACE_FAMILY_IP == 1
NET_IFACE_FAMILY_IPV6 == 2
IFNAMSIZ == 16
\* platform.h is not among the sources: the SHARED bit and the softirq IRQ
\* are taken from the specification (IRQ entry flags; reserved IRQs).
INTR_IRQ_SHARED == 1
INTR_IRQ_SOFTIRQ == "SOFTIRQ"
SIGHUP == "SIGHUP"
NET_DEVICE_FLAG_NEED_ARP == 256
\* ip.h is not among the sources: the minimum header size and the version
\* number are taken from the specification (IHL=5 without options; version 4).
IP_HDR_SIZE_MIN == 20
IP_VERSION_IPV4 == 4
\* Addresses are kept as they lie in memory: four bytes, network order.
IP_ADDR_ANY == <<0, 0, 0, 0>>
IP_ADDR_BROADCAST == <<255, 255, 255, 255>>
IRQ_DEV == "IRQ_DEV"          \* an IRQ a device backend asks for

Devices == 1..MaxDevices
OutThreads == {"t1", "t2"}   \* application threads calling ip_output
Ifaces == 1..MaxIfaces
Irqs == {INTR_IRQ_SOFTIRQ, IRQ_DEV}
FlagValues == 0..3            \* bit 0 is SHARED, bit 1 any other bit
Types == {NET_PROTOCOL_TYPE_IP, NET_PROTOCOL_TYPE_ARP}
Payloads == {<<65>>, <<65, 66>>}
Families == {NET_IFACE_FAMILY_IP, NET_IFACE_FAMILY_IPV6}

\* The mtu and the flags a backend gives device d, and the family of
\* interface i.
DevMtu(d) == IP_HDR_SIZE_MIN + d
DevFlags(d) == IF d % 2 = 0 THEN NET_DEVICE_FLAG_NEED_ARP ELSE 0
\* The hooks the backend of device d puts in its ops: device 1 has a close
\* hook only, device 2 both, device 3 neither.
DevHasHook(d, op) == IF op = "open" THEN d % 2 = 0 ELSE d % 3 # 0
IfaceFamily(i) == IF i % 2 = 1 THEN NET_IFACE_FAMILY_IP ELSE NET_IFACE_FAMILY_IPV6
Lens == {0} \cup {DevMtu(d) + k : d \in Devices, k \in {-1, 0, 1}}

VARIABLES
  \* interrupt subsystem
  irqs,        \* IRQ list, head first: records [irq, flags, handler]
  sigmask,     \* the wait set
  tid,         \* "none" | "main" | "worker"
  blocked,     \* signals blocked in the main thread (inherited by the worker)
  pendMain,    \* signals pending on the main thread
  pendWorker,  \* signals pending on the worker
  wpc,         \* worker: none|barrier|sigwait|dispatch|isr_input|drain|handler|free|exited|joined
  wsig,        \* the signal sigwait returned
  wIdx,        \* position of the dispatch loop in irqs
  alive,       \* FALSE once a signal's default action or a crash ended the process
  \* main thread
  mpc,         \* start|init_failed|reg_loop|ready|run_masked|run_barrier|run_open|running|joining|stopped
  regType,     \* net_protocol_register: the type asked for
  regCur,      \* net_protocol_register: the loop pointer
  regBack,     \* who called net_protocol_register: "init" (ip_init) or "api"
  \* protocol dispatcher
  protos,      \* heap of protocol entries: records [type, next, queue]
  protocols,   \* head pointer
  bpc,         \* backend thread: idle|input
  inReq,       \* per caller: the frame net_input_handler was called with
  inCur,       \* per caller: the loop pointer of net_input_handler
  inRet,       \* what the last call of net_input_handler to return returned
  drainCur,    \* the loop pointer of net_softirq_handler
  \* device registry
  dev,         \* device objects
  devices,     \* head pointer
  index,       \* the static counter of net_device_register
  iface,       \* interface objects: records [next, dev]
  \* observation (not program state)
  regOrder,    \* devices in the order they were registered
  opened,      \* devices net_run opened and net_shutdown has not closed
  mcall,       \* the main thread's last call and what it returned
  hookEv,      \* per device: the last net_device_open or net_device_close on it
  enqueued,    \* frames net_input_handler enqueued, per call order
  delivered,   \* frames handed to an upper-layer handler
  nIn,         \* calls of net_input_handler so far
  drainSnap,   \* queue of the drained protocol when the drain started
  drainBase,   \* Len(delivered), Len(enqueued) when the drain started
  nKill,       \* pthread_kill(tid, SIGHUP) calls of intr_shutdown
  nJoin,       \* pthread_join calls of intr_shutdown
  staleUse,    \* TRUE once a joined thread's id was signalled or joined again
  \* queue entry storage
  heap,        \* per entry memory_alloc returned, in order: memory_free calls on it
  drainEntry,  \* the entry net_softirq_handler popped and has not released yet
  \* observation of the worker's dispatch
  called,      \* entries of irqs (positions) whose handler this dispatch round invoked
  \* IP layer
  ifaces,      \* head pointer of the list of registered IP interfaces
  ipNext,      \* per IP interface: its link in that list
  ipId,        \* the static counter of ip_generate_id
  ipIn,        \* observation: how the last call of ip_input ended
  ipHdr,       \* observation: the header of the last datagram handed to a device
  \* ip_output on application threads
  opc,         \* per thread: idle|lock|read|incr|unlock|core
  oid,         \* per thread: ret of ip_generate_id
  idMutex,     \* the mutex of ip_generate_id: its holder, or "none"
  draws,       \* observation: the ids drawn one call at a time, in order
  nBefore      \* observation: ids drawn before those, in one run of calls

intrVars == <<irqs, sigmask, tid, blocked, pendMain, pendWorker, wpc, wsig, wIdx, alive>>
mainVars == <<mpc, regType, regCur, regBack>>
protoVars == <<protos, protocols, bpc, inReq, inCur, inRet, drainCur>>
devVars == <<dev, devices, index, iface>>
obsDev == <<regOrder, opened, mcall, hookEv>>
obsIntr == <<enqueued, delivered, nIn, drainSnap, drainBase>>
obsShut == <<nKill, nJoin, staleUse>>
memVars == <<heap, drainEntry>>
ipVars == <<ifaces, ipNext, ipId, ipIn, ipHdr>>
idVars == <<opc, oid, idMutex, draws, nBefore>>
vars == <<intrVars, mainVars, protoVars, devVars, obsDev, obsIntr, obsShut, memVars, called,
          ipVars, idVars>>


\* ------------------------------------------------------------ helpers
\* The entries a loop "for (p = head; p; p = p->next)" visits, at most fuel of them.
RECURSIVE ListFrom(_, _, _)
ListFrom(next, p, fuel) ==
  IF p = NULL \/ fuel = 0 THEN <<>>
  ELSE <<p>> \o ListFrom(next, next[p], fuel - 1)

Range(s) == {s[i] : i \in 1..Len(s)}

IsPrefix(s, t) == Len(s) <= Len(t) /\ SubSeq(t, 1, Len(s)) = s

\* a ^ b on non-negative integers
RECURSIVE BitXor(_, _)
BitXor(a, b) ==
  IF a = 0 THEN b
  ELSE IF b = 0 THEN a
  ELSE (((a % 2) + (b % 2)) % 2) + 2 * BitXor(a \div 2, b \div 2)

\* ------------------------------------------------------ device registry
DevNext == [d \in Devices |-> dev[d].next]
IfaceNext == [i \in Ifaces |-> iface[i].next]
DeviceList == ListFrom(DevNext, devices, MaxDevices)
IfaceList(d) == ListFrom(IfaceNext, dev[d].ifaces, MaxIfaces)

NET_DEVICE_IS_UP(flags) == (flags \div NET_DEVICE_FLAG_UP) % 2 = 1

\* snprintf(dev->name, sizeof(dev->name), "net%d", dev->index)
DigitChar(n) == <<"0", "1", "2", "3", "4", "5", "6", "7", "8", "9">>[n + 1]
RECURSIVE Decimal(_)
Decimal(n) == IF n < 10 THEN <<DigitChar(n)>> ELSE Decimal(n \div 10) \o <<DigitChar(n % 10)>>
FormatName(n) ==
  LET full == <<"n", "e", "t">> \o Decimal(n)
  IN  IF Len(full) > IFNAMSIZ - 1 THEN SubSeq(full, 1, IFNAMSIZ - 1) ELSE full

\* dev->index = index++  (the value the device gets, the value the counter keeps)
\* The index taken after the increment instead of before it.
RegisterIndexPreIncrement(counter) == counter + 1
RegisterIndex(counter) == counter
RegisterCounter(counter) == counter + 1

net_device_register(d) ==
  /\ alive /\ mpc = "ready"
  /\ d \notin Range(regOrder)          \* a backend registers a fresh shell once
  /\ dev' = [dev EXCEPT ![d].index = RegisterIndex(index),
                        ![d].name = FormatName(RegisterIndex(index)),
                        ![d].next = devices]
  /\ index' = RegisterCounter(index)
  /\ devices' = d
  /\ regOrder' = Append(regOrder, d)
  /\ mcall' = [op |-> "net_device_register", ret |-> 0, tx |-> FALSE, arg |-> <<>>]
  /\ UNCHANGED <<iface, opened, hookEv>>
  /\ UNCHANGED <<intrVars, mainVars, protoVars, obsIntr, obsShut>>
  /\ UNCHANGED memVars
  /\ UNCHANGED called
  /\ UNCHANGED ipVars
  /\ UNCHANGED idVars

\* The loop of net_device_get_iface: the first entry of the family, or NULL.
net_device_get_iface(d, family) ==
  LET hits == SelectSeq(IfaceList(d), LAMBDA i : IfaceFamily(i) = family)
  IN  IF hits = <<>> THEN NULL ELSE hits[1]

\* The duplicate check of net_device_add_iface.
\* The duplicate test left out.
AddIfaceNeverExists(d, i) == FALSE
AddIfaceExists(d, i) == \E e \in Range(IfaceList(d)) : IfaceFamily(e) = IfaceFamily(i)

\* What net_device_add_iface returns, and what it does to the device and
\* the interface.
AddIfaceRet(d, i) == IF AddIfaceExists(d, i) THEN -1 ELSE 0
AddIfaceLink(d, i) ==
  IF AddIfaceExists(d, i)
    THEN UNCHANGED <<dev, iface>>
    ELSE /\ iface' = [iface EXCEPT ![i].dev = d, ![i].next = dev[d].ifaces]
         /\ dev' = [dev EXCEPT ![d].ifaces = i]

net_device_add_iface(d, i) ==
  /\ alive /\ mpc = "ready"
  /\ d \in Range(regOrder)
  /\ iface[i].dev = NULL               \* an interface is attached to one device only
  /\ AddIfaceLink(d, i)
  /\ mcall' = [op |-> "net_device_add_iface", ret |-> AddIfaceRet(d, i), tx |-> FALSE,
               arg |-> <<>>]
  /\ UNCHANGED <<devices, index, regOrder, opened, hookEv>>
  /\ UNCHANGED <<intrVars, mainVars, protoVars, obsIntr, obsShut>>
  /\ UNCHANGED memVars
  /\ UNCHANGED called
  /\ UNCHANGED ipVars
  /\ UNCHANGED idVars

\* The two gates of net_device_output.
\* The length test made strict: a frame of exactly mtu bytes is refused.
OutputGateStrict(d, len) == NET_DEVICE_IS_UP(dev[d].flags) /\ ~(len >= DevMtu(d))
OutputGate(d, len) == NET_DEVICE_IS_UP(dev[d].flags) /\ ~(len > DevMtu(d))

\* tx is what the backend's transmit returns (0 or -1) when it is called;
\* mcall.tx tells whether it was called, mcall.arg is <<dev, len>>.
net_device_output(d, len, tx) ==
  /\ alive /\ mpc \in {"ready", "running", "stopped"}
  /\ d \in Range(regOrder)
  /\ mcall' = IF OutputGate(d, len)
                THEN [op |-> "net_device_output", ret |-> tx, tx |-> TRUE, arg |-> <<d, len>>]
                ELSE [op |-> "net_device_output", ret |-> -1, tx |-> FALSE, arg |-> <<d, len>>]
  /\ UNCHANGED <<devVars, regOrder, opened, hookEv>>
  /\ UNCHANGED <<intrVars, mainVars, protoVars, obsIntr, obsShut>>
  /\ UNCHANGED memVars
  /\ UNCHANGED called
  /\ UNCHANGED ipVars
  /\ UNCHANGED idVars

\* net_device_open / net_device_close on flags; hook is what the backend's
\* hook does: "none" (no hook), "ok" or "fail".
\* The test for a device that is already UP left out.
net_device_open_ret_unchecked(flags, hook) == IF hook = "fail" THEN -1 ELSE 0
net_device_open_ret(flags, hook) ==
  IF NET_DEVICE_IS_UP(flags) THEN -1 ELSE IF hook = "fail" THEN -1 ELSE 0
net_device_open_flags(flags, hook) ==
  IF net_device_open_ret(flags, hook) = 0 THEN flags + NET_DEVICE_FLAG_UP ELSE flags
net_device_close_ret(flags, hook) ==
  IF ~NET_DEVICE_IS_UP(flags) THEN -1 ELSE IF hook = "fail" THEN -1 ELSE 0
net_device_close_flags(flags, hook) ==
  IF net_device_close_ret(flags, hook) = 0 THEN flags - NET_DEVICE_FLAG_UP ELSE flags

HookOutcomes == {"none", "ok", "fail"}
Registered == Range(regOrder)

\* Whether net_device_open / net_device_close reaches the backend's hook.
net_device_open_calls(flags, hook) == ~NET_DEVICE_IS_UP(flags) /\ hook # "none"
net_device_close_calls(flags, hook) == NET_DEVICE_IS_UP(flags) /\ hook # "none"

\* The record of a call: which function, whether the hook was called, what
\* the function returned, and which hook was the last to succeed before it.
HookEvent(prev, op, reached, ret) ==
  [op |-> op, called |-> reached, ret |-> ret,
   lastOk |-> IF prev.called /\ prev.ret = 0 THEN prev.op ELSE prev.lastOk]

\* "for (dev = devices; dev; dev = dev->next) net_device_open(dev);"
OpenAll(hook) ==
  /\ dev' = [d \in Devices |->
               IF d \in Range(DeviceList)
                 THEN [dev[d] EXCEPT !.flags = net_device_open_flags(dev[d].flags, hook[d])]
                 ELSE dev[d]]
  /\ opened' = opened \cup {d \in Range(DeviceList) :
                              net_device_open_ret(dev[d].flags, hook[d]) = 0}
  /\ hookEv' = [d \in Devices |->
                  IF d \in Range(DeviceList)
                    THEN HookEvent(hookEv[d], "open",
                                   net_device_open_calls(dev[d].flags, hook[d]),
                                   net_device_open_ret(dev[d].flags, hook[d]))
                    ELSE hookEv[d]]

CloseAll(hook) ==
  /\ dev' = [d \in Devices |->
               IF d \in Range(DeviceList)
                 THEN [dev[d] EXCEPT !.flags = net_device_close_flags(dev[d].flags, hook[d])]
                 ELSE dev[d]]
  /\ opened' = opened \ {d \in Range(DeviceList) :
                           net_device_close_ret(dev[d].flags, hook[d]) = 0}
  /\ hookEv' = [d \in Devices |->
                  IF d \in Range(DeviceList)
                    THEN HookEvent(hookEv[d], "close",
                                   net_device_close_calls(dev[d].flags, hook[d]),
                                   net_device_close_ret(dev[d].flags, hook[d]))
                    ELSE hookEv[d]]


\* -------------------------------------------------- interrupt subsystem
\* The handlers a caller passes to intr_request_irq: a device ISR, which
\* feeds net_input_handler, and the ISR of the softirq, which calls
\* net_softirq_handler ("call when dispatching software interrupt").
HandlerFor(irq) == IF irq = INTR_IRQ_SOFTIRQ THEN "softirq_isr" ELSE "dev_isr"

\* entry->flags ^ INTR_IRQ_SHARED || flags ^ INTR_IRQ_SHARED
\* Only the request's flags tested, not those of the existing entry.
IrqConflictRequestOnly(entryFlags, flags) == BitXor(flags, INTR_IRQ_SHARED) # 0
IrqConflict(entryFlags, flags) ==
  BitXor(entryFlags, INTR_IRQ_SHARED) # 0 \/ BitXor(flags, INTR_IRQ_SHARED) # 0

RequestIrqRejects(irq, flags) ==
  \E k \in 1..Len(irqs) : irqs[k].irq = irq /\ IrqConflict(irqs[k].flags, flags)

intr_request_irq(irq, flags, allocOk) ==
  /\ alive /\ mpc = "ready"
  /\ Len(irqs) < MaxIrqs
  /\ IF RequestIrqRejects(irq, flags) \/ ~allocOk
       THEN /\ UNCHANGED <<irqs, sigmask>>
            /\ mcall' = [op |-> "intr_request_irq", ret |-> -1, tx |-> FALSE, arg |-> <<irq, flags>>]
       ELSE /\ irqs' = <<[irq |-> irq, flags |-> flags, handler |-> HandlerFor(irq)]>> \o irqs
            /\ sigmask' = sigmask \cup {irq}
            /\ mcall' = [op |-> "intr_request_irq", ret |-> 0, tx |-> FALSE, arg |-> <<irq, flags>>]
  /\ UNCHANGED <<tid, blocked, pendMain, pendWorker, wpc, wsig, wIdx, alive>>
  /\ UNCHANGED <<mainVars, protoVars, devVars, obsIntr, obsShut>>
  /\ UNCHANGED <<regOrder, opened, hookEv>>
  /\ UNCHANGED memVars
  /\ UNCHANGED called
  /\ UNCHANGED ipVars
  /\ UNCHANGED idVars

\* pthread_kill(t, sig): a signal blocked in the thread stays pending on it;
\* one that is not blocked takes its default action, which ends the process;
\* a thread that has returned and is not yet joined takes no signal.
WorkerLive == wpc \in {"barrier", "sigwait", "dispatch", "isr_input", "drain", "handler", "free"}
SignalEffect(t, sig) ==
  LET live == t = "main" \/ (t = "worker" /\ WorkerLive)
  IN  /\ pendMain' = IF t = "main" /\ sig \in blocked THEN pendMain \cup {sig} ELSE pendMain
      /\ pendWorker' = IF t = "worker" /\ live /\ sig \in blocked
                         THEN pendWorker \cup {sig} ELSE pendWorker
      /\ alive' = (alive /\ ~(live /\ sig \notin blocked))

\* The backend thread exists from pthread_create to the end of the join.
BackendActive == mpc \in {"run_barrier", "run_open", "running", "joining"}

\* intr_raise_irq(irq) called by the main thread or a backend thread, any
\* time after init
intr_raise_irq(irq) ==
  /\ alive
  /\ mpc \in {"ready", "run_masked"} \/ BackendActive
  /\ \E k \in 1..Len(irqs) : irqs[k].irq = irq
  /\ SignalEffect(tid, irq)
  /\ UNCHANGED <<irqs, sigmask, tid, blocked, wpc, wsig, wIdx>>
  /\ UNCHANGED <<mainVars, protoVars, devVars, obsDev, obsIntr, obsShut>>
  /\ UNCHANGED memVars
  /\ UNCHANGED called
  /\ UNCHANGED ipVars
  /\ UNCHANGED idVars

\* --------------------------------------------------- protocol dispatcher
Callers == {"worker", "backend"}
NoFrame == [type |-> 0, dev |-> NULL, data |-> <<>>]
ProtoNext == [p \in 1..Len(protos) |-> protos[p].next]
ProtocolList == ListFrom(ProtoNext, protocols, MaxProtos)
RegisteredTypes == {protos[p].type : p \in Range(ProtocolList)}

\* "type == proto->next": a 16-bit number against a pointer; a heap address
\* is above 65535, so only NULL can equal a type, the type 0.
RegisterMatch(type, p) == protos[p].next = NULL /\ type = 0
\* "proto->next = proto": the value stored in the new entry's next field
RegisterLink(new, head) == new

\* net_protocol_register(type, handler) called by the host
net_protocol_register(type) ==
  /\ alive /\ mpc = "ready"
  /\ Len(protos) < MaxProtos
  /\ mpc' = "reg_loop" /\ regBack' = "api"
  /\ regType' = type /\ regCur' = protocols
  /\ UNCHANGED <<intrVars, protoVars, devVars, obsDev, obsIntr, obsShut>>
  /\ UNCHANGED memVars
  /\ UNCHANGED called
  /\ UNCHANGED ipVars
  /\ UNCHANGED idVars

\* Where the main thread is after the call returned ret: net_init fails
\* when ip_init's registration fails, and the host gives up.
RegReturnPc(ret) == IF regBack = "init" /\ ret = -1 THEN "init_failed" ELSE "ready"

\* One iteration of the loop of net_protocol_register, or the code after it.
ProtoRegStep ==
  /\ alive /\ mpc = "reg_loop"
  /\ IF regCur # NULL
       THEN IF RegisterMatch(regType, regCur)
              THEN /\ mpc' = RegReturnPc(-1) /\ regCur' = NULL /\ regType' = 0
                   /\ mcall' = [op |-> "net_protocol_register", ret |-> -1, tx |-> FALSE, arg |-> <<>>]
                   /\ UNCHANGED <<protos, protocols>>
              ELSE /\ regCur' = protos[regCur].next
                   /\ UNCHANGED <<mpc, regType, mcall, protos, protocols>>
       ELSE \E allocOk \in BOOLEAN :
              /\ mpc' = RegReturnPc(IF allocOk THEN 0 ELSE -1)
              /\ regCur' = NULL /\ regType' = 0
              /\ IF allocOk
                   THEN /\ protos' = Append(protos,
                               [type |-> regType,
                                next |-> RegisterLink(Len(protos) + 1, protocols),
                                queue |-> <<>>])
                        /\ protocols' = Len(protos) + 1
                        /\ mcall' = [op |-> "net_protocol_register", ret |-> 0, tx |-> FALSE, arg |-> <<>>]
                   ELSE /\ UNCHANGED <<protos, protocols>>
                        /\ mcall' = [op |-> "net_protocol_register", ret |-> -1, tx |-> FALSE, arg |-> <<>>]
  /\ UNCHANGED regBack
  /\ UNCHANGED <<intrVars, bpc, inReq, inCur, inRet, drainCur, devVars, obsIntr, obsShut>>
  /\ UNCHANGED <<regOrder, opened, hookEv>>
  /\ UNCHANGED memVars
  /\ UNCHANGED called
  /\ UNCHANGED ipVars
  /\ UNCHANGED idVars

\* net_init: intr_init, then ip_init, which registers the IP protocol.
net_init ==
  /\ alive /\ mpc = "start" /\ bpc = "idle"
  /\ tid' = "main"
  /\ sigmask' = {SIGHUP}
  /\ mpc' = "reg_loop" /\ regBack' = "init"
  /\ regType' = NET_PROTOCOL_TYPE_IP /\ regCur' = protocols
  /\ UNCHANGED <<irqs, blocked, pendMain, pendWorker, wpc, wsig, wIdx, alive>>
  /\ UNCHANGED <<protoVars, devVars, obsDev, obsIntr, obsShut>>
  /\ UNCHANGED memVars
  /\ UNCHANGED called
  /\ UNCHANGED ipVars
  /\ UNCHANGED idVars

\* "entry->handler(entry->irq, entry->dev);": where the worker goes when
\* a handler returned ret; the value is discarded.
AfterHandlerStops(ret) == IF ret = -1 THEN "exited" ELSE "dispatch"
AfterHandler(ret) == "dispatch"

\* The value net_input_handler returns to caller c, whose call ends; a
\* device ISR returns what it got from net_input_handler.
InputReturn(c, r) ==
  /\ inRet' = r
  /\ inReq' = [inReq EXCEPT ![c] = NoFrame]
  /\ inCur' = [inCur EXCEPT ![c] = NULL]
  /\ IF c = "worker"
       THEN wpc' = AfterHandler(r) /\ wIdx' = wIdx + 1 /\ UNCHANGED bpc
       ELSE bpc' = "idle" /\ UNCHANGED <<wpc, wIdx>>

InInput(c) == IF c = "worker" THEN wpc = "isr_input" ELSE bpc = "input"

\* queue_push and queue_pop of the queue primitive (util, not among the
\* sources): a FIFO.
queue_push(q, e) == Append(q, e)
queue_head(q) == Head(q)
queue_rest(q) == Tail(q)

\* The entry net_input_handler builds: dev, len and a copy of the bytes, in
\* the storage memory_alloc returned (id: its place in heap).
InputEntry(req) ==
  [id |-> Len(heap) + 1, dev |-> req.dev, len |-> Len(req.data), data |-> req.data]
NoEntry == [id |-> 0, dev |-> NULL, len |-> 0, data |-> <<>>]

\* "memory_free(entry)" after a failed queue_push: frees is the number of
\* memory_free calls the entry has had.
RollbackLeaks(frees) == frees
RollbackFrees(frees) == frees + 1
\* "memory_free(entry)" after the handler returned
DrainFrees(frees) == frees + 1

\* "intr_raise_irq(INTR_IRQ_SOFTIRQ); return 0;": after the push the entry
\* is left to the softirq, the handler is not called.
InputCallsHandler(log, p, e) == Append(log, [proto |-> p, e |-> e])
InputDefers(log, p, e) == log

\* One iteration of the loop of net_input_handler, or the code after it.
\* outcome: "ok", "nomem" (memory_alloc fails) or "pushfail" (queue_push fails).
InputStep(c, outcome) ==
  /\ alive /\ InInput(c)
  /\ LET p == inCur[c]
         req == inReq[c]
     IN IF p = NULL
          THEN /\ InputReturn(c, 0)
               /\ UNCHANGED <<protos, enqueued, pendMain, pendWorker, alive, heap, delivered>>
          ELSE IF protos[p].type = req.type
            THEN IF outcome = "ok"
                   THEN /\ protos' = [protos EXCEPT ![p].queue =
                                         queue_push(protos[p].queue, InputEntry(req))]
                        /\ enqueued' = Append(enqueued, [proto |-> p, e |-> InputEntry(req)])
                        /\ heap' = Append(heap, 0)
                        /\ delivered' = InputDefers(delivered, p, InputEntry(req))
                        /\ SignalEffect(tid, INTR_IRQ_SOFTIRQ)
                        /\ InputReturn(c, 0)
                   ELSE /\ InputReturn(c, -1)
                        /\ heap' = IF outcome = "pushfail"
                                     THEN Append(heap, RollbackFrees(0)) ELSE heap
                        /\ UNCHANGED <<protos, enqueued, pendMain, pendWorker, alive, delivered>>
            ELSE /\ inCur' = [inCur EXCEPT ![c] = protos[p].next]
                 /\ UNCHANGED <<inRet, inReq, wpc, wIdx, bpc, heap>>
                 /\ UNCHANGED <<protos, enqueued, pendMain, pendWorker, alive, delivered>>
  /\ UNCHANGED <<irqs, sigmask, tid, blocked, wsig>>
  /\ UNCHANGED <<mainVars, protocols, drainCur, devVars, obsDev, obsShut>>
  /\ UNCHANGED <<nIn, drainSnap, drainBase, drainEntry>>
  /\ UNCHANGED called
  /\ UNCHANGED ipVars
  /\ UNCHANGED idVars

\* The backend thread calls net_input_handler(type, data, len, dev).
BackendInput(type, data, d) ==
  /\ alive /\ bpc = "idle"
  /\ mpc = "start" \/ BackendActive
  /\ nIn < MaxFrames
  /\ nIn' = nIn + 1
  /\ bpc' = "input"
  /\ inReq' = [inReq EXCEPT !["backend"] = [type |-> type, dev |-> d, data |-> data]]
  /\ inCur' = [inCur EXCEPT !["backend"] = protocols]
  /\ UNCHANGED <<intrVars, mainVars, protos, protocols, inRet, drainCur, devVars>>
  /\ UNCHANGED <<obsDev, obsShut, enqueued, delivered, drainSnap, drainBase>>
  /\ UNCHANGED memVars
  /\ UNCHANGED called
  /\ UNCHANGED ipVars
  /\ UNCHANGED idVars

\* "proto->handler(entry->data, entry->len, entry->dev)"
\* The entry released without the handler being called.
DeliverSkipped(log, p, e) == log
Deliver(log, p, e) == Append(log, [proto |-> p, e |-> e])

\* One iteration of the loops of net_softirq_handler up to the call of the
\* handler, or its return.
DrainStep ==
  /\ alive /\ wpc = "drain"
  /\ IF drainCur = NULL
       THEN /\ wpc' = AfterHandler(0) /\ wIdx' = wIdx + 1
            /\ drainSnap' = <<>> /\ drainBase' = [d |-> 0, e |-> 0]
            /\ UNCHANGED <<drainCur, protos, delivered, drainEntry>>
       ELSE IF protos[drainCur].queue = <<>>
         THEN /\ drainCur' = protos[drainCur].next
              /\ UNCHANGED <<wpc, wIdx, protos, delivered, drainSnap, drainBase, drainEntry>>
         ELSE /\ protos' = [protos EXCEPT ![drainCur].queue = queue_rest(protos[drainCur].queue)]
              /\ drainEntry' = queue_head(protos[drainCur].queue)
              /\ delivered' = Deliver(delivered, drainCur, queue_head(protos[drainCur].queue))
              /\ wpc' = "handler"
              /\ UNCHANGED <<wIdx, drainCur, drainSnap, drainBase>>
  /\ UNCHANGED <<irqs, sigmask, tid, blocked, pendMain, pendWorker, wsig, alive>>
  /\ UNCHANGED <<mainVars, protocols, bpc, inReq, inCur, inRet, devVars, obsDev, obsShut>>
  /\ UNCHANGED <<enqueued, nIn, heap>>
  /\ UNCHANGED called
  /\ UNCHANGED ipVars
  /\ UNCHANGED idVars

\* proto->handler(...) returns to net_softirq_handler.
HandlerReturn ==
  /\ alive /\ wpc = "handler"
  /\ wpc' = "free"
  /\ UNCHANGED <<irqs, sigmask, tid, blocked, pendMain, pendWorker, wsig, wIdx, alive>>
  /\ UNCHANGED <<mainVars, protoVars, devVars, obsDev, obsIntr, obsShut, memVars>>
  /\ UNCHANGED called
  /\ UNCHANGED ipVars
  /\ UNCHANGED idVars

\* memory_free(entry), then the inner loop of net_softirq_handler again.
DrainFree ==
  /\ alive /\ wpc = "free"
  /\ heap' = [heap EXCEPT ![drainEntry.id] = DrainFrees(@)]
  /\ drainEntry' = NoEntry
  /\ wpc' = "drain"
  /\ UNCHANGED <<irqs, sigmask, tid, blocked, pendMain, pendWorker, wsig, wIdx, alive>>
  /\ UNCHANGED <<mainVars, protoVars, devVars, obsDev, obsIntr, obsShut>>
  /\ UNCHANGED called
  /\ UNCHANGED ipVars
  /\ UNCHANGED idVars

\* ------------------------------------------------------------ the worker
\* "case SIGHUP: terminate = 1;"
TerminatesNever(sig) == FALSE
Terminates(sig) == sig = SIGHUP

\* sigwait(&sigmask, &sig), then the switch of intr_thread.
WorkerSigwait(sig) ==
  /\ alive /\ wpc = "sigwait"
  /\ sig \in pendWorker \cap sigmask
  /\ pendWorker' = pendWorker \ {sig}
  /\ IF Terminates(sig)
       THEN wpc' = "exited" /\ wsig' = "none" /\ wIdx' = 0
       ELSE wpc' = "dispatch" /\ wsig' = sig /\ wIdx' = 1
  /\ UNCHANGED <<irqs, sigmask, tid, blocked, pendMain, alive>>
  /\ UNCHANGED <<mainVars, protoVars, devVars, obsDev, obsIntr, obsShut>>
  /\ UNCHANGED memVars
  /\ called' = <<>>
  /\ UNCHANGED ipVars
  /\ UNCHANGED idVars

\* The dispatch loop at an entry of another IRQ, or at the end of the list.
WorkerDispatchNext ==
  /\ alive /\ wpc = "dispatch"
  /\ IF wIdx > Len(irqs)
       THEN wpc' = "sigwait" /\ wsig' = "none" /\ wIdx' = 0
       ELSE /\ irqs[wIdx].irq # wsig
            /\ wIdx' = wIdx + 1 /\ UNCHANGED <<wpc, wsig>>
  /\ UNCHANGED <<irqs, sigmask, tid, blocked, pendMain, pendWorker, alive>>
  /\ UNCHANGED <<mainVars, protoVars, devVars, obsDev, obsIntr, obsShut>>
  /\ UNCHANGED memVars
  /\ called' = IF wIdx > Len(irqs) THEN <<>> ELSE called
  /\ UNCHANGED ipVars
  /\ UNCHANGED idVars

AtHandler(kind) ==
  /\ alive /\ wpc = "dispatch"
  /\ wIdx <= Len(irqs)
  /\ irqs[wIdx].irq = wsig
  /\ irqs[wIdx].handler = kind

\* entry->handler(...) is a device ISR that has a frame for net_input_handler.
WorkerIsrInput(type, data, d) ==
  /\ AtHandler("dev_isr")
  /\ nIn < MaxFrames
  /\ nIn' = nIn + 1
  /\ wpc' = "isr_input"
  /\ inReq' = [inReq EXCEPT !["worker"] = [type |-> type, dev |-> d, data |-> data]]
  /\ inCur' = [inCur EXCEPT !["worker"] = protocols]
  /\ UNCHANGED <<irqs, sigmask, tid, blocked, pendMain, pendWorker, wsig, wIdx, alive>>
  /\ UNCHANGED <<mainVars, protos, protocols, bpc, inRet, drainCur, devVars>>
  /\ UNCHANGED <<obsDev, obsShut, enqueued, delivered, drainSnap, drainBase>>
  /\ UNCHANGED memVars
  /\ called' = Append(called, wIdx)
  /\ UNCHANGED ipVars
  /\ UNCHANGED idVars

\* entry->handler(...) is a device ISR that finds no frame and returns ret.
WorkerIsrIdle(ret) ==
  /\ AtHandler("dev_isr")
  /\ wIdx' = wIdx + 1
  /\ wpc' = AfterHandler(ret)
  /\ UNCHANGED <<irqs, sigmask, tid, blocked, pendMain, pendWorker, wsig, alive>>
  /\ UNCHANGED <<mainVars, protoVars, devVars, obsDev, obsIntr, obsShut>>
  /\ UNCHANGED memVars
  /\ called' = Append(called, wIdx)
  /\ UNCHANGED ipVars
  /\ UNCHANGED idVars

\* entry->handler(...) is the softirq ISR: net_softirq_handler starts.
WorkerSoftirq ==
  /\ AtHandler("softirq_isr")
  /\ wpc' = "drain"
  /\ drainCur' = protocols
  /\ drainSnap' = [p \in 1..Len(protos) |-> protos[p].queue]
  /\ drainBase' = [d |-> Len(delivered), e |-> Len(enqueued)]
  /\ UNCHANGED <<irqs, sigmask, tid, blocked, pendMain, pendWorker, wsig, wIdx, alive>>
  /\ UNCHANGED <<mainVars, protos, protocols, bpc, inReq, inCur, inRet, devVars>>
  /\ UNCHANGED <<obsDev, obsShut, enqueued, delivered, nIn>>
  /\ UNCHANGED memVars
  /\ called' = Append(called, wIdx)
  /\ UNCHANGED ipVars
  /\ UNCHANGED idVars

\* ------------------------------------------------------- stack facade
\* intr_run: pthread_sigmask(SIG_BLOCK, &sigmask, NULL)
NetRunMask ==
  /\ alive /\ mpc = "ready" /\ tid = "main"
  /\ blocked' = blocked \cup sigmask
  /\ mpc' = "run_masked"
  /\ UNCHANGED <<irqs, sigmask, tid, pendMain, pendWorker, wpc, wsig, wIdx, alive>>
  /\ UNCHANGED <<regType, regCur, regBack, protoVars, devVars, obsDev, obsIntr, obsShut>>
  /\ UNCHANGED memVars
  /\ UNCHANGED called
  /\ UNCHANGED ipVars
  /\ UNCHANGED idVars

\* net_run called again once net_shutdown has returned: the same first step
\* of intr_run. The thread that was joined is gone, and with it whatever
\* was pending on it.
NetRunAgain ==
  /\ alive /\ mpc = "stopped" /\ wpc = "joined"
  /\ blocked' = blocked \cup sigmask
  /\ pendWorker' = {}
  /\ mpc' = "run_masked"
  /\ UNCHANGED <<irqs, sigmask, tid, pendMain, wpc, wsig, wIdx, alive>>
  /\ UNCHANGED <<regType, regCur, regBack, protoVars, devVars, obsDev, obsIntr, obsShut>>
  /\ UNCHANGED <<memVars, called, ipVars, idVars>>

\* intr_run: pthread_create(&tid, NULL, intr_thread, NULL)
NetRunCreate ==
  /\ alive /\ mpc = "run_masked"
  /\ tid' = "worker" /\ wpc' = "barrier"
  /\ mpc' = "run_barrier"
  /\ UNCHANGED <<irqs, sigmask, blocked, pendMain, pendWorker, wsig, wIdx, alive>>
  /\ UNCHANGED <<regType, regCur, regBack, protoVars, devVars, obsDev, obsIntr, obsShut>>
  /\ UNCHANGED memVars
  /\ UNCHANGED called
  /\ UNCHANGED ipVars
  /\ UNCHANGED idVars

\* pthread_barrier_wait(&barrier) in intr_run and in intr_thread
Barrier ==
  /\ alive /\ mpc = "run_barrier" /\ wpc = "barrier"
  /\ wpc' = "sigwait" /\ mpc' = "run_open"
  /\ UNCHANGED <<irqs, sigmask, tid, blocked, pendMain, pendWorker, wsig, wIdx, alive>>
  /\ UNCHANGED <<regType, regCur, regBack, protoVars, devVars, obsDev, obsIntr, obsShut>>
  /\ UNCHANGED memVars
  /\ UNCHANGED called
  /\ UNCHANGED ipVars
  /\ UNCHANGED idVars

\* net_run after intr_run: open all devices.
NetRunOpen(hook) ==
  /\ alive /\ mpc = "run_open"
  /\ OpenAll(hook)
  /\ mpc' = "running"
  /\ mcall' = [op |-> "net_run", ret |-> 0, tx |-> FALSE, arg |-> <<>>]
  /\ UNCHANGED <<devices, index, iface, regOrder>>
  /\ UNCHANGED <<intrVars, regType, regCur, regBack, protoVars, obsIntr, obsShut>>
  /\ UNCHANGED memVars
  /\ UNCHANGED called
  /\ UNCHANGED ipVars
  /\ UNCHANGED idVars

\* net_shutdown: close all devices, then intr_shutdown.
net_shutdown(hook) ==
  /\ alive /\ mpc \in {"ready", "running", "stopped"}
  /\ nKill < MaxShutdowns
  /\ CloseAll(hook)
  /\ mcall' = [op |-> "net_shutdown", ret |-> 0, tx |-> FALSE, arg |-> <<>>]
  /\ \/ /\ tid = "main"                    \* pthread_equal(tid, pthread_self())
        /\ UNCHANGED <<mpc, pendMain, pendWorker, alive, nKill, nJoin, staleUse>>
     \/ /\ tid = "worker" /\ wpc # "joined"
        /\ SignalEffect(tid, SIGHUP)
        /\ mpc' = "joining"
        /\ nKill' = nKill + 1 /\ nJoin' = nJoin + 1
        /\ UNCHANGED staleUse
     \/ /\ tid = "worker" /\ wpc = "joined"  \* the id of a thread already joined
        /\ \E crash \in BOOLEAN : alive' = ~crash
        /\ nKill' = nKill + 1 /\ nJoin' = nJoin + 1
        /\ staleUse' = TRUE
        /\ UNCHANGED <<mpc, pendMain, pendWorker>>
  /\ UNCHANGED <<irqs, sigmask, tid, blocked, wpc, wsig, wIdx>>
  /\ UNCHANGED <<regType, regCur, regBack, protoVars, obsIntr>>
  /\ UNCHANGED <<devices, index, iface, regOrder>>
  /\ UNCHANGED memVars
  /\ UNCHANGED called
  /\ UNCHANGED ipVars
  /\ UNCHANGED idVars

\* pthread_join(tid, NULL) returns once intr_thread has returned.
JoinReturn ==
  /\ alive /\ mpc = "joining" /\ wpc = "exited"
  /\ wpc' = "joined" /\ mpc' = "stopped"
  /\ UNCHANGED <<irqs, sigmask, tid, blocked, pendMain, pendWorker, wsig, wIdx, alive>>
  /\ UNCHANGED <<regType, regCur, regBack, protoVars, devVars, obsDev, obsIntr, obsShut>>
  /\ UNCHANGED memVars
  /\ UNCHANGED called
  /\ UNCHANGED ipVars
  /\ UNCHANGED idVars

\* ------------------------------------------------------------- IP layer
\* a & b and a | b on non-negative integers
RECURSIVE BitAnd(_, _)
BitAnd(a, b) ==
  IF a = 0 \/ b = 0 THEN 0
  ELSE ((a % 2) * (b % 2)) + 2 * BitAnd(a \div 2, b \div 2)
BitOr(a, b) == a + b - BitAnd(a, b)

\* A uint16_t read from, and written to, the bytes at offset k of b by a
\* host whose byte order is little-endian (le) or big-endian.
Load16(b, k, le) ==
  IF le THEN b[k + 1] + 256 * b[k + 2] ELSE 256 * b[k + 1] + b[k + 2]
Store16(v, le) == IF le THEN <<v % 256, v \div 256>> ELSE <<v \div 256, v % 256>>

\* util.h is not among the sources: the byte-order conversions and the
\* checksum are taken from the specification (total and id in big-endian;
\* 16-bit one's-complement sum).
Swap16(v) == (v % 256) * 256 + (v \div 256)
hton16(h, le) == IF le THEN Swap16(h) ELSE h
ntoh16(n, le) == IF le THEN Swap16(n) ELSE n

\* The sum of the 16-bit words of count bytes at offset k, a trailing odd
\* byte added as it is.
RECURSIVE SumWords(_, _, _, _)
SumWords(b, k, count, le) ==
  IF count > 1 THEN Load16(b, k, le) + SumWords(b, k + 2, count - 2, le)
  ELSE IF count > 0 THEN b[k + 1]
  ELSE 0

\* The carries folded back into the low 16 bits.
RECURSIVE Fold(_)
Fold(sum) == IF sum \div 65536 > 0 THEN Fold((sum % 65536) + (sum \div 65536)) ELSE sum

\* The complement of the folded sum, as a uint16_t.
cksum16(b, count, init, le) == 65535 - Fold(init + SumWords(b, 0, count, le))

\* The interfaces the host allocates with ip_iface_alloc: those of the IP
\* family, each with the unicast address and the netmask it is given.
IpIfaceIds == {i \in Ifaces : IfaceFamily(i) = NET_IFACE_FAMILY_IP}
IfaceUnicast(i) == IF i = 1 THEN <<127, 0, 0, 1>> ELSE <<10, i, 0, 1>>
IfaceNetmask(i) == IF i = 1 THEN <<255, 0, 0, 0>> ELSE <<255, 255, 0, 0>>
\* iface->broadcast = (iface->unicast & iface->netmask) | ~iface->netmask
IfaceBroadcast(i) ==
  [k \in 1..4 |-> BitOr(BitAnd(IfaceUnicast(i)[k], IfaceNetmask(i)[k]),
                        255 - IfaceNetmask(i)[k])]

IpIfaceList == ListFrom(ipNext, ifaces, MaxIfaces)

\* ip_iface_register: attach to the device, then push on the global list.
ip_iface_register(d, i) ==
  /\ alive /\ mpc = "ready"
  /\ d \in Range(regOrder)
  /\ i \in IpIfaceIds
  /\ iface[i].dev = NULL
  /\ AddIfaceLink(d, i)
  /\ IF AddIfaceRet(d, i) = -1
       THEN /\ UNCHANGED <<ifaces, ipNext>>
            /\ mcall' = [op |-> "ip_iface_register", ret |-> -1, tx |-> FALSE, arg |-> <<d, i>>]
       ELSE /\ ipNext' = [ipNext EXCEPT ![i] = ifaces]
            /\ ifaces' = i
            /\ mcall' = [op |-> "ip_iface_register", ret |-> 0, tx |-> FALSE, arg |-> <<d, i>>]
  /\ UNCHANGED <<devices, index, regOrder, opened, hookEv>>
  /\ UNCHANGED <<intrVars, mainVars, protoVars, obsIntr, obsShut>>
  /\ UNCHANGED memVars
  /\ UNCHANGED called
  /\ UNCHANGED <<ipId, ipIn, ipHdr>>
  /\ UNCHANGED idVars

\* The loop of ip_iface_select: the first entry whose unicast is addr, or NULL.
ip_iface_select(addr) ==
  LET hits == SelectSeq(IpIfaceList, LAMBDA i : IfaceUnicast(i) = addr)
  IN  IF hits = <<>> THEN NULL ELSE hits[1]

\* ip_output_core, lines 241-253: the header as it lies in the buffer, the
\* sum field holding the two bytes sum.
HeaderBytes(protocol, len, src, dst, id, offset, sum, le) ==
  LET hlen == IP_HDR_SIZE_MIN                      \* sizeof(*hdr)
      total == (hlen + len) % 65536                \* uint16_t total
  IN  <<BitOr(IP_VERSION_IPV4 * 16, hlen \div 4), 0>>
        \o Store16(hton16(total, le), le)
        \o Store16(hton16(id, le), le)
        \o Store16(hton16(offset, le), le)
        \o <<255, protocol>>
        \o sum
        \o src \o dst

\* hdr->sum = cksum16((uint16_t *)hdr, hlen, 0)
\* The checksum taken over the bytes before the addresses only.
HeaderChecksumNoAddrs(h, le) == cksum16(h, IP_HDR_SIZE_MIN - 8, 0, le)
HeaderChecksum(h, le) == cksum16(h, IP_HDR_SIZE_MIN, 0, le)

\* The header ip_output_core hands to ip_output_device.
ip_output_core(protocol, len, src, dst, id, offset, le) ==
  LET zeroed == HeaderBytes(protocol, len, src, dst, id, offset, Store16(0, le), le)
  IN  HeaderBytes(protocol, len, src, dst, id, offset,
                  Store16(HeaderChecksum(zeroed, le), le), le)

\* ip_output_device refuses a destination it would need ARP for.
NeedArp(flags) == (flags \div NET_DEVICE_FLAG_NEED_ARP) % 2 = 1
ArpRefuses(i, dst) ==
  /\ NeedArp(dev[iface[i].dev].flags)
  /\ ~(dst = IfaceBroadcast(i) \/ dst = IP_ADDR_BROADCAST)

\* The MTU test of ip_output.
\* The comparison made non-strict: a datagram that fills the MTU is refused.
MtuRefusesAtLimit(d, len) == DevMtu(d) <= IP_HDR_SIZE_MIN + len
MtuRefuses(d, len) == DevMtu(d) < IP_HDR_SIZE_MIN + len

\* The checks of ip_output before it draws an id: -1 when one fails.
ip_output_precheck(len, src) ==
  IF src = IP_ADDR_ANY THEN -1
  ELSE IF ip_iface_select(src) = NULL THEN -1
  ELSE IF MtuRefuses(iface[ip_iface_select(src)].dev, len) THEN -1
  ELSE 0

\* ret = id++ of ip_generate_id, on a uint16_t
ip_generate_id_next(n) == (n + 1) % 65536

\* A call of ip_output on the main thread, once net_run has returned, and
\* its return. tx is what the backend's transmit returns when it is called;
\* mcall.tx tells whether it was called, mcall.arg is <<len, src, dst>>;
\* ipHdr is the header handed to net_device_output. mcall holds the call
\* until it has returned.
ip_output(protocol, len, src, dst, tx, le) ==
  /\ alive /\ mpc = "running"
  /\ mcall.op # "ip_output"
  /\ ipId < 128 + MaxOutputs
  /\ IF ip_output_precheck(len, src) = -1
       THEN /\ mcall' = [op |-> "ip_output", ret |-> -1, tx |-> FALSE,
                         arg |-> <<len, src, dst>>]
            /\ ipHdr' = <<>>
            /\ UNCHANGED ipId
       ELSE LET i == ip_iface_select(src)
                d == iface[i].dev
                hdr == ip_output_core(protocol, len, IfaceUnicast(i), dst, ipId, 0, le)
                sent == ~ArpRefuses(i, dst) /\ OutputGate(d, IP_HDR_SIZE_MIN + len)
            IN  /\ ipId' = ip_generate_id_next(ipId)
                /\ ipHdr' = IF ArpRefuses(i, dst) THEN <<>> ELSE hdr
                /\ mcall' = [op |-> "ip_output",
                             ret |-> IF sent /\ tx = 0 THEN len ELSE -1,
                             tx |-> sent, arg |-> <<len, src, dst>>]
  /\ UNCHANGED <<ifaces, ipNext, ipIn>>
  /\ UNCHANGED <<devVars, regOrder, opened, hookEv>>
  /\ UNCHANGED <<intrVars, mainVars, protoVars, obsIntr, obsShut>>
  /\ UNCHANGED memVars
  /\ UNCHANGED called
  /\ UNCHANGED idVars

IpOutputReturn ==
  /\ alive /\ mcall.op = "ip_output"
  /\ mcall' = [op |-> "none", ret |-> 0, tx |-> FALSE, arg |-> <<>>]
  /\ ipHdr' = <<>>
  /\ UNCHANGED <<ifaces, ipNext, ipId, ipIn>>
  /\ UNCHANGED <<devVars, regOrder, opened, hookEv>>
  /\ UNCHANGED <<intrVars, mainVars, protoVars, obsIntr, obsShut>>
  /\ UNCHANGED memVars
  /\ UNCHANGED called
  /\ UNCHANGED idVars

\* The length test of ip_input against the total length field.
\* The comparison made non-strict: a datagram of exactly total bytes is refused.
TotalRefusesAtLimit(len, total) == len <= total
TotalRefuses(len, total) == len < total

\* ip_input on datagram data received by device d: where it returns.
ip_input_verdict(data, d, le) ==
  LET len == Len(data)
      vhl == data[1]
      hlen == (vhl % 16) * 4                           \* (hdr->vhl & 0x0f) << 2
      total == ntoh16(Load16(data, 2, le), le)
      offset == ntoh16(Load16(data, 6, le), le)
      i == net_device_get_iface(d, NET_IFACE_FAMILY_IP)
      dst == SubSeq(data, 17, 20)
  IN  IF len < IP_HDR_SIZE_MIN THEN "too short"
      ELSE IF vhl \div 16 # IP_VERSION_IPV4 THEN "invalid version"
      ELSE IF len < hlen THEN "shorter than IHL"
      ELSE IF TotalRefuses(len, total) THEN "shorter than total length"
      ELSE IF cksum16(data, hlen, 0, le) # 0 THEN "checksum error"
      ELSE IF BitAnd(offset, 8192) # 0 \/ BitAnd(offset, 8191) # 0
             THEN "fragments does not support"
      ELSE IF i = NULL THEN "no interface"
      ELSE IF dst # IfaceUnicast(i) /\ dst # IfaceBroadcast(i) /\ dst # IP_ADDR_BROADCAST
             THEN "not for this host"
      ELSE "accept"

NoVerdict == [verdict |-> "none", data |-> <<>>, dev |-> NULL]

\* A call of ip_input, and its return. ipIn holds the call in progress.
ip_input(data, d, le) ==
  /\ alive /\ mpc = "running"
  /\ d \in Range(regOrder)
  /\ ipIn = NoVerdict
  /\ ipIn' = [verdict |-> ip_input_verdict(data, d, le), data |-> data, dev |-> d]
  /\ UNCHANGED <<ifaces, ipNext, ipId, ipHdr>>
  /\ UNCHANGED <<devVars, obsDev>>
  /\ UNCHANGED <<intrVars, mainVars, protoVars, obsIntr, obsShut>>
  /\ UNCHANGED memVars
  /\ UNCHANGED called
  /\ UNCHANGED idVars

IpInputReturn ==
  /\ alive /\ ipIn # NoVerdict
  /\ ipIn' = NoVerdict
  /\ UNCHANGED <<ifaces, ipNext, ipId, ipHdr>>
  /\ UNCHANGED <<devVars, obsDev>>
  /\ UNCHANGED <<intrVars, mainVars, protoVars, obsIntr, obsShut>>
  /\ UNCHANGED memVars
  /\ UNCHANGED called
  /\ UNCHANGED idVars

\* ------------------------------------------------------ specifications
Init ==
  /\ irqs = <<>> /\ sigmask = {} /\ tid = "none" /\ blocked = {}
  /\ pendMain = {} /\ pendWorker = {}
  /\ wpc = "none" /\ wsig = "none" /\ wIdx = 0 /\ alive = TRUE
  /\ mpc = "start" /\ regType = 0 /\ regCur = NULL /\ regBack = "init"
  /\ protos = <<>> /\ protocols = NULL
  /\ bpc = "idle"
  /\ inReq = [c \in Callers |-> NoFrame]
  /\ inCur = [c \in Callers |-> NULL]
  /\ inRet = 1                          \* no call has returned yet (a call returns 0 or -1)
  /\ drainCur = NULL
  /\ dev = [d \in Devices |->
              [index |-> 0, name |-> <<>>, next |-> NULL, flags |-> DevFlags(d),
               ifaces |-> NULL]]
  /\ devices = NULL /\ index = 0
  /\ iface = [i \in Ifaces |-> [next |-> NULL, dev |-> NULL]]
  /\ regOrder = <<>> /\ opened = {}
  /\ hookEv = [d \in Devices |->
                 [op |-> "none", called |-> FALSE, ret |-> 0, lastOk |-> "none"]]
  /\ mcall = [op |-> "none", ret |-> 0, tx |-> FALSE, arg |-> <<>>]
  /\ enqueued = <<>> /\ delivered = <<>> /\ nIn = 0
  /\ drainSnap = <<>> /\ drainBase = [d |-> 0, e |-> 0]
  /\ nKill = 0 /\ nJoin = 0 /\ staleUse = FALSE
  /\ heap = <<>> /\ drainEntry = NoEntry
  /\ called = <<>>
  /\ ifaces = NULL /\ ipNext = [i \in Ifaces |-> NULL]
  /\ ipId = 128
  /\ ipIn = NoVerdict /\ ipHdr = <<>>
  /\ opc = [t \in OutThreads |-> "idle"] /\ oid = [t \in OutThreads |-> 0]
  /\ idMutex = "none" /\ draws = <<>> /\ nBefore = 0

\* What the open or close hook of each registered device does in one pass.
HookChoices(op) ==
  {h \in [Registered -> HookOutcomes] :
     \A d \in Registered : (h[d] = "none") <=> ~DevHasHook(d, op)}

\* The facade's life cycle and the worker's loop, common to both planes.
WorkerLoop ==
  \/ \E sig \in Irqs \cup {SIGHUP} : WorkerSigwait(sig)
  \/ Barrier

\* The interface plane: devices and the interfaces attached to them.
NextIface ==
  \/ net_init
  \/ ProtoRegStep
  \/ \E d \in Devices : net_device_register(d)
  \/ \E d \in Devices, i \in Ifaces : net_device_add_iface(d, i)

SpecIface == Init /\ [][NextIface]_vars

\* The device plane: registry, output, open and close under run and shutdown.
NextDev ==
  \/ net_init
  \/ ProtoRegStep
  \/ \E d \in Devices : net_device_register(d)
  \/ \E d \in Devices, len \in Lens, tx \in {0, -1} : net_device_output(d, len, tx)
  \/ NetRunMask
  \/ NetRunCreate
  \/ \E hook \in HookChoices("open") : NetRunOpen(hook)
  \/ \E hook \in HookChoices("close") : net_shutdown(hook)
  \/ JoinReturn
  \/ WorkerLoop

SpecDev == Init /\ [][NextDev]_vars

\* Open and close alone: net_run and net_shutdown, any number of times,
\* over backends whose hooks are absent, succeed or fail.
NextOpen ==
  \/ net_init
  \/ ProtoRegStep
  \/ \E d \in Devices : net_device_register(d)
  \/ NetRunMask
  \/ NetRunCreate
  \/ \E hook \in HookChoices("open") : NetRunOpen(hook)
  \/ \E hook \in HookChoices("close") : net_shutdown(hook)
  \/ JoinReturn
  \/ NetRunAgain
  \/ WorkerLoop

SpecOpen == Init /\ [][NextOpen]_vars

\* The IRQ list under every request: any IRQ, any flags, allocation failing
\* or not.
NextIrq ==
  \/ net_init
  \/ ProtoRegStep
  \/ \E irq \in Irqs, flags \in FlagValues, allocOk \in BOOLEAN :
       intr_request_irq(irq, flags, allocOk)

SpecIrq == Init /\ [][NextIrq]_vars

\* The interrupt and protocol plane: the worker, ingress and the softirq
\* drain, under run and shutdown; backends request their IRQs SHARED, the
\* host requests one ISR for the softirq.
InputOutcomes == {"ok", "nomem", "pushfail"}
FrameDevs == {1}

WorkerNext ==
  \/ WorkerLoop
  \/ WorkerDispatchNext
  \/ \E type \in Types, data \in Payloads, d \in FrameDevs : WorkerIsrInput(type, data, d)
  \/ \E ret \in {0, -1} : WorkerIsrIdle(ret)
  \/ WorkerSoftirq
  \/ \E outcome \in InputOutcomes : InputStep("worker", outcome)
  \/ DrainStep
  \/ HandlerReturn
  \/ DrainFree

MainInternal ==
  \/ ProtoRegStep
  \/ NetRunCreate
  \/ \E hook \in HookChoices("open") : NetRunOpen(hook)
  \/ JoinReturn

BackendInternal == \E outcome \in InputOutcomes : InputStep("backend", outcome)

NextIntr ==
  \/ net_init
  \/ \E type \in Types : net_protocol_register(type)
  \/ \E irq \in Irqs :        \* the softirq ISR is requested once
       /\ irq = INTR_IRQ_SOFTIRQ => \A k \in 1..Len(irqs) : irqs[k].irq # irq
       /\ intr_request_irq(irq, INTR_IRQ_SHARED, TRUE)
  \/ NetRunMask
  \/ \E hook \in HookChoices("close") : net_shutdown(hook)
  \/ \E irq \in Irqs : BackendActive /\ intr_raise_irq(irq)   \* raised once the worker exists
  \/ \E type \in Types, data \in Payloads, d \in FrameDevs : BackendInput(type, data, d)
  \/ MainInternal
  \/ BackendInternal
  \/ WorkerNext

SpecIntr == Init /\ [][NextIntr]_vars

\* The threads are scheduled: a step a thread can take is eventually taken.
\* Calls the host or a backend may or may not make carry no fairness.
FairIntr ==
  /\ SpecIntr
  /\ WF_vars(WorkerNext)
  /\ WF_vars(MainInternal)
  /\ WF_vars(BackendInternal)

\* IRQs raised at any time after init, with ISRs that find no frame.
NextRaise ==
  \/ net_init
  \/ ProtoRegStep
  \/ \E irq \in Irqs : intr_request_irq(irq, INTR_IRQ_SHARED, TRUE)
  \/ \E irq \in Irqs : intr_raise_irq(irq)
  \/ NetRunMask
  \/ NetRunCreate
  \/ \E hook \in HookChoices("open") : NetRunOpen(hook)
  \/ \E hook \in HookChoices("close") : net_shutdown(hook)
  \/ JoinReturn
  \/ WorkerLoop
  \/ WorkerDispatchNext
  \/ \E ret \in {0, -1} : WorkerIsrIdle(ret)
  \/ WorkerSoftirq
  \/ DrainStep

SpecRaise == Init /\ [][NextRaise]_vars

\* The addresses and lengths ip_output is called with: every registered
\* unicast, 0.0.0.0 and a foreign address as src; payloads around the MTUs.
ForeignAddr == <<192, 0, 2, 9>>
SrcAddrs == {IP_ADDR_ANY, ForeignAddr} \cup {IfaceUnicast(i) : i \in IpIfaceIds}
DstAddrs == {IP_ADDR_BROADCAST, ForeignAddr} \cup {IfaceBroadcast(i) : i \in IpIfaceIds}
OutLens == 0..(MaxDevices + 1)

\* In the IP planes every backend's open hook succeeds.
OpenHooks == {h \in HookChoices("open") : \A d \in Registered : h[d] # "fail"}

\* The egress plane: devices, IP interfaces, net_run and ip_output.
NextIpOut ==
  \/ net_init
  \/ ProtoRegStep
  \/ \E d \in Devices : net_device_register(d)
  \/ \E d \in Devices, i \in Ifaces : ip_iface_register(d, i)
  \/ NetRunMask
  \/ NetRunCreate
  \/ Barrier
  \/ \E hook \in OpenHooks : NetRunOpen(hook)
  \/ IpOutputReturn
  \/ \E protocol \in {1, 17}, len \in OutLens, src \in SrcAddrs, dst \in DstAddrs,
        tx \in {0, -1} :
       ip_output(protocol, len, src, dst, tx, TRUE)      \* a little-endian host

SpecIpOut == Init /\ [][NextIpOut]_vars

\* The header format on its own: ip_output_core applied to any protocol,
\* payload length, addresses, id and host byte order.

FormatHeader(protocol, len, src, dst, id, le) ==
  /\ ipHdr = <<>>                        \* one call: the buffer is filled once
  /\ ipHdr' = ip_output_core(protocol, len, src, dst, id, 0, le)
  /\ UNCHANGED <<ifaces, ipNext, ipId, ipIn>>
  /\ UNCHANGED <<intrVars, mainVars, protoVars, devVars, obsDev, obsIntr, obsShut>>
  /\ UNCHANGED memVars
  /\ UNCHANGED called
  /\ UNCHANGED idVars

NextHdr ==
  \E protocol \in {1, 6, 17, 255}, len \in {0, 1, 236, 1480, 65515},
     i \in IpIfaceIds, dst \in DstAddrs,
     id \in {0, 1, 128, 255, 256, 32767, 32768, 65279, 65535}, le \in BOOLEAN :
    FormatHeader(protocol, len, IfaceUnicast(i), dst, id, le)

SpecHdr == Init /\ [][NextHdr]_vars

\* The datagrams a device delivers to ip_input: a header in wire format with
\* the given fields and a checksum that is right (flip = 0) or has one bit
\* flipped (flip = 1), zero bytes after it, cut or padded to len bytes.
WireHeader(vhl, total, offset, dst) ==
  <<vhl, 0, total \div 256, total % 256, 0, 128, offset \div 256, offset % 256,
    64, 17, 0, 0, 192, 0, 2, 1>> \o dst
Datagram(vhl, total, offset, flip, dst, len) ==
  LET z == WireHeader(vhl, total, offset, dst) \o [k \in 1..40 |-> 0]
      sum == BitXor(cksum16(z, (vhl % 16) * 4, 0, FALSE), flip)
      full == [z EXCEPT ![11] = sum \div 256, ![12] = sum % 256]
  IN  SubSeq(full, 1, len)

VhlValues == {69, 70, 68, 64, 79, 101}       \* 0x45 0x46 0x44 0x40 0x4f 0x65
DatagramLens == {19, 20, 24, 28}
Datagrams ==
  {Datagram(vhl, total, 0, 0, IP_ADDR_BROADCAST, len) :
     vhl \in VhlValues, total \in {19, 20, 24, 28}, len \in DatagramLens}
  \cup
  {Datagram(69, 20, offset, flip, dst, len) :
     offset \in {0, 16384, 8192, 1, 32768},   \* none, DF, MF, offset 1, reserved bit
     flip \in {0, 1},
     dst \in DstAddrs \cup {IfaceUnicast(i) : i \in IpIfaceIds}, len \in {20}}

\* The ingress plane: devices, IP interfaces, net_run and ip_input.
NextIpIn ==
  \/ net_init
  \/ ProtoRegStep
  \/ \E d \in Devices : net_device_register(d)
  \/ \E d \in Devices, i \in Ifaces : ip_iface_register(d, i)
  \/ NetRunMask
  \/ NetRunCreate
  \/ Barrier
  \/ \E hook \in OpenHooks : NetRunOpen(hook)
  \/ \E data \in Datagrams, d \in Devices, le \in BOOLEAN : ip_input(data, d, le)
  \/ IpInputReturn

SpecIpIn == Init /\ [][NextIpIn]_vars

\* platform.h is not among the sources: the mutex is taken from the
\* specification (the id counter is mutated under a dedicated mutex).
\* mutex_lock returns once no thread holds the mutex.
\* A lock that excludes nobody.
MutexNeverHeld(m) == TRUE
MutexFree(m) == m = "none"

\* ip_output on an application thread t, step by step. OutputCall runs the
\* checks before ip_generate_id: a call that fails them returns at once.
OutputCall(t, len, src) ==
  /\ alive /\ mpc = "running"
  /\ opc[t] = "idle"
  /\ Len(draws) + Cardinality({u \in OutThreads : opc[u] \in {"lock", "read"}}) < MaxOutputs
  /\ opc' = [opc EXCEPT ![t] = IF ip_output_precheck(len, src) = -1 THEN "idle" ELSE "lock"]
  /\ UNCHANGED <<oid, idMutex, draws, nBefore>>
  /\ UNCHANGED <<intrVars, mainVars, protoVars, devVars, obsDev, obsIntr, obsShut>>
  /\ UNCHANGED <<memVars, called, ipVars>>

\* mutex_lock(&mutex)
IdLock(t) ==
  /\ alive /\ opc[t] = "lock"
  /\ MutexFree(idMutex)
  /\ idMutex' = t
  /\ opc' = [opc EXCEPT ![t] = "read"]
  /\ UNCHANGED <<oid, draws, nBefore>>
  /\ UNCHANGED <<intrVars, mainVars, protoVars, devVars, obsDev, obsIntr, obsShut>>
  /\ UNCHANGED <<memVars, called, ipVars>>

\* ret = id++, the read of id
IdRead(t) ==
  /\ alive /\ opc[t] = "read"
  /\ oid' = [oid EXCEPT ![t] = ipId]
  /\ draws' = Append(draws, ipId)
  /\ opc' = [opc EXCEPT ![t] = "incr"]
  /\ UNCHANGED <<idMutex, nBefore>>
  /\ UNCHANGED <<intrVars, mainVars, protoVars, devVars, obsDev, obsIntr, obsShut>>
  /\ UNCHANGED <<memVars, called, ipVars>>

\* ret = id++, the write of id
IdIncr(t) ==
  /\ alive /\ opc[t] = "incr"
  /\ ipId' = ip_generate_id_next(oid[t])
  /\ opc' = [opc EXCEPT ![t] = "unlock"]
  /\ UNCHANGED <<oid, idMutex, draws, nBefore>>
  /\ UNCHANGED <<ifaces, ipNext, ipIn, ipHdr>>
  /\ UNCHANGED <<intrVars, mainVars, protoVars, devVars, obsDev, obsIntr, obsShut>>
  /\ UNCHANGED <<memVars, called>>

\* mutex_unlock(&mutex)
IdUnlock(t) ==
  /\ alive /\ opc[t] = "unlock"
  /\ idMutex' = IF idMutex = t THEN "none" ELSE idMutex
  /\ opc' = [opc EXCEPT ![t] = "core"]
  /\ UNCHANGED <<oid, draws, nBefore>>
  /\ UNCHANGED <<intrVars, mainVars, protoVars, devVars, obsDev, obsIntr, obsShut>>
  /\ UNCHANGED <<memVars, called, ipVars>>

\* ip_output_core with the id drawn, and the return of ip_output: the
\* datagram leaves through the device, nothing of the stack changes.
OutputCore(t) ==
  /\ alive /\ opc[t] = "core"
  /\ opc' = [opc EXCEPT ![t] = "idle"]
  /\ UNCHANGED <<oid, idMutex, draws, nBefore>>
  /\ UNCHANGED <<intrVars, mainVars, protoVars, devVars, obsDev, obsIntr, obsShut>>
  /\ UNCHANGED <<memVars, called, ipVars>>

\* The counter after calls draws from n, each one ret = id++.
RECURSIVE IdAfter(_, _)
IdAfter(n, calls) ==
  IF calls = 0 THEN n
  ELSE IF calls % 2 = 0
         THEN CHOOSE r \in {IdAfter(m, calls \div 2) : m \in {IdAfter(n, calls \div 2)}} : TRUE
  ELSE ip_generate_id_next(IdAfter(n, calls - 1))

\* The counter after RunLen draws from its initial value.
RunEnd == IdAfter(128, RunLen)

\* A run of RunLen calls of ip_output that pass the checks, the first calls
\* of all, made one after the other while no other thread is in ip_output.
OutputRun ==
  /\ alive /\ mpc = "running"
  /\ \A t \in OutThreads : opc[t] = "idle"
  /\ draws = <<>> /\ nBefore = 0 /\ ipId = 128
  /\ \E len \in OutLens, src \in SrcAddrs : ip_output_precheck(len, src) = 0
  /\ ipId' = RunEnd
  /\ nBefore' = RunLen
  /\ UNCHANGED <<opc, oid, idMutex, draws>>
  /\ UNCHANGED <<ifaces, ipNext, ipIn, ipHdr>>
  /\ UNCHANGED <<intrVars, mainVars, protoVars, devVars, obsDev, obsIntr, obsShut>>
  /\ UNCHANGED <<memVars, called>>

\* The id counter under two application threads in ip_output.
NextId ==
  \/ net_init
  \/ ProtoRegStep
  \/ \E d \in Devices : net_device_register(d)
  \/ \E d \in Devices, i \in Ifaces : ip_iface_register(d, i)
  \/ NetRunMask
  \/ NetRunCreate
  \/ Barrier
  \/ \E hook \in OpenHooks : NetRunOpen(hook)
  \/ OutputRun
  \/ \E t \in OutThreads, len \in OutLens, src \in SrcAddrs : OutputCall(t, len, src)
  \/ \E t \in OutThreads : IdLock(t) \/ IdRead(t) \/ IdIncr(t) \/ IdUnlock(t) \/ OutputCore(t)

SpecId == Init /\ [][NextId]_vars

Next ==
  \/ NextDev \/ NextIface \/ NextIrq \/ NextIntr \/ NextRaise \/ NextIpOut \/ NextHdr \/ NextIpIn
  \/ NextId \/ NextOpen
Spec == Init /\ [][Next]_vars

\* ---------------------------------------------------------------- claims

\* The payload entries of protocol p in a log, in the log's order.
EntriesOf(log, p) ==
  LET own == SelectSeq(log, LAMBDA x : x.proto = p)
  IN  [k \in 1..Len(own) |-> own[k].e]
Since(log, n) == SubSeq(log, n + 1, Len(log))

\* C1: per protocol, delivery is FIFO without loss or duplication: what the
\* handler has received followed by what is still queued is what was
\* enqueued, in that order; and in a drain, what the handler has received
\* since it began followed by what is queued is the queue the drain found
\* followed by what was enqueued since, so that the entries enqueued before
\* the drain are delivered first, each once, in their order.
C1_FifoDelivery ==
  \A p \in 1..Len(protos) :
    /\ EntriesOf(delivered, p) \o protos[p].queue = EntriesOf(enqueued, p)
    /\ (wpc = "drain" /\ p \in DOMAIN drainSnap) =>
         LET out  == EntriesOf(Since(delivered, drainBase.d), p)
             late == EntriesOf(Since(enqueued, drainBase.e), p)
         IN  /\ out \o protos[p].queue = drainSnap[p] \o late
             /\ IF Len(out) <= Len(drainSnap[p])
                  THEN IsPrefix(out, drainSnap[p])
                  ELSE IsPrefix(drainSnap[p], out)
\* A drain that found two different payloads queued has handed both to the
\* handler.
C1_Witness ==
  /\ wpc = "drain"
  /\ \E p \in DOMAIN drainSnap :
       /\ Len(drainSnap[p]) = 2
       /\ drainSnap[p][1].data # drainSnap[p][2].data
       /\ EntriesOf(Since(delivered, drainBase.d), p) = drainSnap[p]

\* A loop "for (p = from; p; p = p->next)" over the protocol list that
\* leaves at the entries in stop comes to an end: it has not met an entry
\* twice after as many steps as there are entries.
RECURSIVE WalkEnds(_, _, _)
WalkEnds(p, stop, fuel) ==
  IF p = NULL \/ p \in stop THEN TRUE
  ELSE IF fuel = 0 THEN FALSE
  ELSE WalkEnds(protos[p].next, stop, fuel - 1)

\* C2: every frame net_input_handler enqueued is eventually handed to the
\* protocol's handler, unless the terminate IRQ is raised first; so the
\* process is running while a frame waits and no terminate IRQ was raised.
C2_EveryFrameDelivered ==
  /\ []((Len(enqueued) > Len(delivered) /\ nKill = 0) => alive)
  /\ \A k \in 1..MaxFrames :
       (Len(enqueued) >= k /\ nKill = 0) ~> (Len(delivered) >= k \/ nKill > 0)

\* C3: no two entries of the protocol list carry the same type; a
\* net_protocol_register call with a registered type returns failure, and
\* one with a new type returns; so the loop of a call in progress comes to
\* an end.
C3_RegisterProtocol ==
  /\ [](mpc = "reg_loop" =>
         WalkEnds(regCur, {p \in 1..Len(protos) : RegisterMatch(regType, p)}, Len(protos)))
  /\ [](\A p, q \in Range(ProtocolList) : p # q => protos[p].type # protos[q].type)
  /\ \A t \in Types :
       (mpc = "reg_loop" /\ regBack = "api" /\ regType = t /\ t \in RegisteredTypes)
         ~> (mpc = "ready" /\ mcall.op = "net_protocol_register" /\ mcall.ret = -1)
  /\ \A t \in Types :
       (mpc = "reg_loop" /\ regBack = "api" /\ regType = t /\ t \notin RegisteredTypes)
         ~> (mpc = "ready" /\ mcall.op = "net_protocol_register")

\* C4: a shutdown after a successful run returns with the worker joined,
\* whatever is pending or in flight when the terminate IRQ is raised; so
\* the handler in flight during the join comes to an end.
C4_ShutdownReturns ==
  /\ []((mpc = "joining" /\ alive /\ wpc = "isr_input") =>
         WalkEnds(inCur["worker"],
                  {p \in 1..Len(protos) : protos[p].type = inReq["worker"].type},
                  Len(protos)))
  /\ []((mpc = "joining" /\ alive /\ wpc = "drain") => WalkEnds(drainCur, {}, Len(protos)))
  /\ (mpc = "joining" /\ alive) ~> ((mpc = "stopped" /\ wpc = "joined") \/ ~alive)

\* C5: intr_shutdown is idempotent and safe without run: while run was never
\* called (tid is still the main thread) no shutdown has signalled or joined
\* anything, and no shutdown ever signals or joins a worker already joined.
C5_ShutdownIdempotent ==
  /\ tid = "main" => (nKill = 0 /\ nJoin = 0)
  /\ ~staleUse
  /\ nKill <= 1 /\ nJoin <= 1

\* C6 as stated: two entries of one IRQ both carry the SHARED bit; a request
\* fails when an entry of the IRQ exists and that entry or the request lacks
\* the SHARED bit, and succeeds otherwise (the entry being allocated).
CarriesShared(flags) == (flags \div INTR_IRQ_SHARED) % 2 = 1
SharedPairs(list) ==
  \A j, k \in 1..Len(list) :
    (j # k /\ list[j].irq = list[k].irq) =>
      (CarriesShared(list[j].flags) /\ CarriesShared(list[k].flags))
LacksShared(irq, flags) ==
  \E k \in 1..Len(irqs) :
    irqs[k].irq = irq /\ (~CarriesShared(irqs[k].flags) \/ ~CarriesShared(flags))
C6_Original ==
  [][\A irq \in Irqs, flags \in FlagValues :
       (intr_request_irq(irq, flags, TRUE) /\ mcall'.arg = <<irq, flags>>) =>
         /\ SharedPairs(irqs')
         /\ LacksShared(irq, flags) => (mcall'.ret = -1 /\ irqs' = irqs)
         /\ ~LacksShared(irq, flags) => (mcall'.ret = 0 /\ Len(irqs') = Len(irqs) + 1)]_vars

\* C6 amended: two entries of one IRQ both have flags equal to SHARED, no
\* other bit set; a request fails and leaves the list unchanged when an entry
\* of the IRQ exists and that entry's flags or the request's differ from
\* SHARED, or when the entry cannot be allocated; otherwise it succeeds and
\* puts exactly the requested entry at the head of the list.
ExactlySharedPairs(list) ==
  \A j, k \in 1..Len(list) :
    (j # k /\ list[j].irq = list[k].irq) =>
      (list[j].flags = INTR_IRQ_SHARED /\ list[k].flags = INTR_IRQ_SHARED)
NotExactlyShared(irq, flags) ==
  \E k \in 1..Len(irqs) :
    irqs[k].irq = irq /\ (irqs[k].flags # INTR_IRQ_SHARED \/ flags # INTR_IRQ_SHARED)
C6_SharedIrq ==
  [][\A irq \in Irqs, flags \in FlagValues, allocOk \in BOOLEAN :
       (intr_request_irq(irq, flags, allocOk) /\ mcall'.arg = <<irq, flags>>) =>
         /\ ExactlySharedPairs(irqs') /\ SharedPairs(irqs')
         /\ (NotExactlyShared(irq, flags) \/ ~allocOk) =>
              (mcall'.ret = -1 /\ irqs' = irqs /\ sigmask' = sigmask)
         /\ (~NotExactlyShared(irq, flags) /\ allocOk) =>
              /\ mcall'.ret = 0
              /\ Len(irqs') = Len(irqs) + 1
              /\ irqs'[1].irq = irq /\ irqs'[1].flags = flags
              /\ SubSeq(irqs', 2, Len(irqs')) = irqs
              /\ irq \in sigmask']_vars
\* Two requests for one IRQ, both SHARED, have succeeded.
C6_Witness ==
  /\ Len(irqs) >= 2
  /\ irqs[1].irq = irqs[2].irq
  /\ mcall.op = "intr_request_irq" /\ mcall.ret = 0

\* C7: net_input_handler called with a type that has no registered entry
\* returns, and returns 0 with every queue unchanged, nothing enqueued and
\* no softirq raised; so its lookup loop comes to the end of the list.
C7_UnknownTypeDropped ==
  /\ [](\A c \in Callers :
         (InInput(c) /\ inReq[c].type \notin RegisteredTypes) =>
           WalkEnds(inCur[c], {}, Len(protos)))
  /\ \A c \in Callers :
       (InInput(c) /\ alive /\ inReq[c].type \notin RegisteredTypes)
         ~> (~InInput(c) \/ ~alive)
  /\ [][\A c \in Callers :
          (InInput(c) /\ ~InInput(c)' /\ inReq[c].type \notin RegisteredTypes) =>
            /\ inRet' = 0
            /\ protos' = protos /\ enqueued' = enqueued
            /\ pendWorker' = pendWorker /\ pendMain' = pendMain]_vars

\* C8: the i-th registered device has index i-1 and the name "net" followed
\* by the decimal numeral of i-1, names are pairwise distinct, and no step
\* changes the index or the name of a registered device.
DigitValue(ch) == CHOOSE v \in 0..9 : DigitChar(v) = ch
RECURSIVE NumeralValue(_)
NumeralValue(s) ==
  IF Len(s) = 1 THEN DigitValue(s[1])
  ELSE 10 * NumeralValue(SubSeq(s, 1, Len(s) - 1)) + DigitValue(s[Len(s)])
IsNetName(name, n) ==
  /\ Len(name) >= 4 /\ Len(name) < IFNAMSIZ
  /\ SubSeq(name, 1, 3) = <<"n", "e", "t">>
  /\ \A k \in 4..Len(name) : name[k] \in {DigitChar(v) : v \in 0..9}
  /\ (Len(name) > 4 => name[4] # "0")
  /\ NumeralValue(SubSeq(name, 4, Len(name))) = n
C8_Inv ==
  /\ \A i \in 1..Len(regOrder) :
       /\ dev[regOrder[i]].index = i - 1
       /\ IsNetName(dev[regOrder[i]].name, i - 1)
  /\ {dev[d].index : d \in Range(regOrder)} = 0..(Len(regOrder) - 1)
  /\ Cardinality({dev[d].name : d \in Range(regOrder)}) = Len(regOrder)
C8_DeviceNames ==
  /\ []C8_Inv
  /\ [][\A d \in Range(regOrder) :
          dev'[d].index = dev[d].index /\ dev'[d].name = dev[d].name]_vars
\* Every device is registered, not in the order of the identifiers, and the
\* stack has run and shut down since.
C8_Witness ==
  /\ Len(regOrder) = MaxDevices
  /\ regOrder[1] = MaxDevices
  /\ mpc = "stopped"

\* C9: a device has at most one interface per family; net_device_add_iface
\* on a device that has an interface of the family fails and changes neither
\* the device's list nor the interface; otherwise it succeeds, the
\* interface points back to the device and net_device_get_iface(dev, family)
\* returns it.
OnePerFamily ==
  \A d \in Devices : \A j, k \in 1..Len(IfaceList(d)) :
    j # k => IfaceFamily(IfaceList(d)[j]) # IfaceFamily(IfaceList(d)[k])
C10_OutputGate ==
  [][\A d \in Devices, len \in Lens, tx \in {0, -1} :
       (net_device_output(d, len, tx) /\ mcall'.arg = <<d, len>>) =>
         /\ mcall'.tx <=> (NET_DEVICE_IS_UP(dev[d].flags) /\ len <= DevMtu(d))
         /\ ~mcall'.tx => mcall'.ret = -1
         /\ mcall'.tx => d \in opened
         /\ (d \in opened /\ len = DevMtu(d)) => mcall'.tx
         /\ len = DevMtu(d) + 1 => ~mcall'.tx]_vars
\* A frame of exactly mtu bytes went out on an open device.
C10_Witness ==
  /\ mcall.op = "net_device_output" /\ mcall.tx
  /\ mcall.arg[2] = DevMtu(mcall.arg[1])
  /\ mcall.arg[1] \in opened

\* C14: a net_softirq_handler invocation terminates, for any number of
\* registered protocols: its walk over the protocol list comes to an end,
\* the invocation returns, and when nothing was enqueued meanwhile every
\* protocol queue is empty on return.
C14_DrainTerminates ==
  /\ [](wpc = "drain" => WalkEnds(drainCur, {}, Len(protos)))
  /\ (wpc = "drain" /\ alive) ~> (wpc # "drain" \/ ~alive)
  /\ [][(wpc = "drain" /\ wpc' # "drain" /\ Len(enqueued') = drainBase.e) =>
          \A p \in 1..Len(protos) : protos'[p].queue = <<>>]_vars

\* C15: once net_shutdown has returned after a run, every protocol queue is
\* empty and every entry memory_alloc returned has been released.
C15_ShutdownDropsQueued ==
  mpc = "stopped" =>
    /\ \A p \in 1..Len(protos) : protos[p].queue = <<>>
    /\ \A id \in 1..Len(heap) : heap[id] >= 1

\* C16: an entry is released at one of two points only, and once: an entry
\* that is queued or that the drain holds has not been released, every
\* other entry has been released exactly once; the handler is called on an
\* entry not yet released and on no entry twice; a release in the drain
\* comes after the handler has returned; net_input_handler failing leaves
\* the queues unchanged, raises no softirq and leaves no entry unreleased.
QueuedIds ==
  UNION {{protos[p].queue[k].id : k \in 1..Len(protos[p].queue)} : p \in 1..Len(protos)}
HeldIds == IF wpc \in {"handler", "free"} THEN {drainEntry.id} ELSE {}
C16_Inv ==
  /\ \A id \in 1..Len(heap) :
       heap[id] = IF id \in QueuedIds \cup HeldIds THEN 0 ELSE 1
  /\ QueuedIds \cap HeldIds = {}
  /\ \A j, k \in 1..Len(delivered) : j # k => delivered[j].e.id # delivered[k].e.id
C16_SingleRelease ==
  /\ []C16_Inv
  /\ [][/\ \A id \in 1..Len(heap) :
             heap'[id] > heap[id] => (wpc = "free" /\ id = drainEntry.id /\ heap[id] = 0)
        /\ Len(delivered') > Len(delivered) =>
             heap[delivered'[Len(delivered')].e.id] = 0
        /\ \A c \in Callers :
             (InInput(c) /\ ~InInput(c)' /\ inRet' = -1) =>
               /\ protos' = protos /\ enqueued' = enqueued
               /\ pendWorker' = pendWorker /\ pendMain' = pendMain /\ alive' = alive
               /\ \A id \in 1..Len(heap') : id > Len(heap) => heap'[id] = 1]_vars
\* One entry was rolled back by a failed enqueue and another was released
\* by the drain after its handler.
C16_Witness ==
  /\ Len(delivered) >= 1
  /\ heap[delivered[1].e.id] = 1
  /\ \E id \in 1..Len(heap) :
       /\ heap[id] = 1
       /\ \A k \in 1..Len(delivered) : delivered[k].e.id # id

\* C17: in a dispatch round for a received IRQ the worker invokes the
\* handlers of the entries registered for that IRQ, each once, in list
\* order, and no handler of another IRQ; the round ends having invoked all
\* of them; and the worker leaves its loop only by receiving the terminate
\* IRQ at sigwait, whatever a handler returned.
Sharers(sig, upTo) ==
  SelectSeq([k \in 1..upTo |-> k], LAMBDA k : irqs[k].irq = sig)
InHandlerCode == wpc \in {"isr_input", "drain", "handler", "free"}
C17_Inv ==
  /\ wpc = "dispatch" =>
       called = Sharers(wsig, IF wIdx - 1 <= Len(irqs) THEN wIdx - 1 ELSE Len(irqs))
  /\ InHandlerCode => called = Sharers(wsig, wIdx)
  /\ InHandlerCode => irqs[wIdx].irq = wsig
C17_Dispatch ==
  /\ []C17_Inv
  /\ [][(wpc = "dispatch" /\ wpc' = "sigwait") => called = Sharers(wsig, Len(irqs))]_vars
  /\ [][(wpc # "exited" /\ wpc' = "exited") =>
          (wpc = "sigwait" /\ SIGHUP \in pendWorker /\ SIGHUP \notin pendWorker')]_vars
\* A round for a shared IRQ is at the end of the list: two sharers were
\* invoked and an entry of another IRQ was not.
C17_Witness ==
  /\ wpc = "dispatch" /\ wIdx > Len(irqs)
  /\ Len(called) = 2
  /\ \E k \in 1..Len(irqs) : irqs[k].irq # wsig

\* C18: the worker that receives the terminate IRQ has no handler in
\* flight and leaves its loop at once; from then on no IRQ handler and no
\* protocol handler is invoked, and no IRQ pending or raised later is
\* received.
C18_NoHandlerAfterTerminate ==
  /\ [][(wpc = "sigwait" /\ SIGHUP \in pendWorker /\ SIGHUP \notin pendWorker') =>
          (wpc' = "exited" /\ drainEntry = NoEntry /\ called' = <<>>)]_vars
  /\ [][(wpc \in {"exited", "joined"}) =>
          (/\ wpc' \in {"exited", "joined"}
           /\ delivered' = delivered /\ called' = called
           /\ pendWorker' = pendWorker)]_vars
\* The worker has exited with an IRQ still pending and a frame still queued.
C18_Witness ==
  /\ wpc \in {"exited", "joined"}
  /\ pendWorker # {}
  /\ \E p \in 1..Len(protos) : protos[p].queue # <<>>

\* C19: no IRQ raised after init is delivered to the main thread or left
\* pending on it: none is pending on the main thread, and the process has
\* not been ended by a signal sent to the main thread.
C19_OnlyWorkerReceives ==
  /\ pendMain = {}
  /\ tid = "main" => alive

\* C20: protocol handlers run on the worker, one at a time: a handler call
\* is a step of the worker's drain made while no call is in progress, the
\* call in progress is the last one made, and a step of net_input_handler,
\* whoever calls it, calls no handler.
C20_Inv ==
  wpc = "handler" =>
    (Len(delivered) >= 1 /\ delivered[Len(delivered)].e = drainEntry)
C20_HandlersSerialized ==
  /\ []C20_Inv
  /\ [][Len(delivered') > Len(delivered) =>
          (/\ Len(delivered') = Len(delivered) + 1
           /\ wpc = "drain" /\ wpc' = "handler"
           /\ bpc' = bpc)]_vars
  /\ [][\A c \in Callers, outcome \in InputOutcomes :
          InputStep(c, outcome) => delivered' = delivered]_vars
\* A handler runs on the worker while the backend thread is inside
\* net_input_handler with a frame of a registered type.
C20_Witness ==
  /\ wpc = "handler"
  /\ bpc = "input"
  /\ inReq["backend"].type \in RegisteredTypes

\* The registered IP interfaces whose unicast address is src.
RegisteredWith(src) == {i \in Range(IpIfaceList) : IfaceUnicast(i) = src}
\* A call of ip_output is made in this step.
OutputCalled == mcall.op # "ip_output" /\ mcall'.op = "ip_output"

\* C12: a call of ip_output with src 0.0.0.0, with a src that is the unicast
\* of no registered IP interface, or with header size + len above the MTU
\* of the selected interface's device returns failure, calls no device
\* transmit and leaves the id counter as it was; a call whose header size
\* + len equals that MTU passes the MTU check and draws an id.
C12_OutputFailures ==
  [][OutputCalled =>
       LET len == mcall'.arg[1]
           src == mcall'.arg[2]
       IN  /\ (\/ src = IP_ADDR_ANY
               \/ RegisteredWith(src) = {}
               \/ \E i \in RegisteredWith(src) : DevMtu(iface[i].dev) < IP_HDR_SIZE_MIN + len)
                => (mcall'.ret = -1 /\ ~mcall'.tx /\ ipId' = ipId /\ ipHdr' = <<>>)
           /\ (src # IP_ADDR_ANY /\
               \E i \in RegisteredWith(src) : DevMtu(iface[i].dev) = IP_HDR_SIZE_MIN + len)
                => ipId' = (ipId + 1) % 65536]_vars

\* ip_output has refused, without a transmit and with the first id still to
\* be drawn, a datagram one byte above the MTU of a registered interface's
\* device.
C12_Witness ==
  /\ mcall.op = "ip_output" /\ mcall.ret = -1 /\ ~mcall.tx
  /\ ipId = 128
  /\ \E i \in RegisteredWith(mcall.arg[2]) :
       DevMtu(iface[i].dev) + 1 = IP_HDR_SIZE_MIN + mcall.arg[1]

\* One's-complement addition of two 16-bit words: the carry comes back in
\* at the low end.
OnesAdd(a, b) == IF a + b > 65535 THEN a + b - 65535 ELSE a + b
\* The one's-complement sum of the first n 16-bit words of h, read in
\* network order.
RECURSIVE OnesSum(_, _)
OnesSum(h, n) ==
  IF n = 0 THEN 0 ELSE OnesAdd(OnesSum(h, n - 1), 256 * h[2 * n - 1] + h[2 * n])

\* C13: a header ip_output_core has formatted is 20 bytes whose 16-bit
\* one's-complement sum, the stored checksum included, is zero (all ones,
\* the complement of which is 0), and ip_input's checksum test passes it
\* on a host of either byte order.
C13_HeaderChecksum ==
  ipHdr # <<>> =>
    /\ Len(ipHdr) = 20
    /\ OnesSum(ipHdr, 10) = 65535
    /\ \A le \in BOOLEAN : cksum16(ipHdr, (ipHdr[1] % 16) * 4, 0, le) = 0

\* A header with id 65535 and the largest total length has been formatted.
C13_Witness ==
  /\ Len(ipHdr) = 20
  /\ ipHdr[3] = 255 /\ ipHdr[4] = 255
  /\ ipHdr[5] = 255 /\ ipHdr[6] = 255

\* The directed broadcast of interface i: the host bits all ones.
DirectedBroadcast(i) ==
  [k \in 1..4 |-> IF IfaceNetmask(i)[k] = 255 THEN IfaceUnicast(i)[k] ELSE 255]
\* The IP interfaces attached to device d.
IpIfacesOf(d) == {i \in Range(IfaceList(d)) : IfaceFamily(i) = NET_IFACE_FAMILY_IP}

\* The conditions under which a datagram received on device d is to be
\* accepted, read off the wire format.
Acceptable(data, d) ==
  /\ Len(data) >= 20
  /\ data[1] \div 16 = 4
  /\ (data[1] % 16) * 4 <= Len(data)
  /\ 256 * data[3] + data[4] <= Len(data)
  /\ OnesSum(data, (data[1] % 16) * 2) = 65535
  /\ (data[7] \div 32) % 2 = 0                         \* MF
  /\ 256 * (data[7] % 32) + data[8] = 0                \* fragment offset
  /\ IpIfacesOf(d) # {}
  /\ \E i \in IpIfacesOf(d) :
       SubSeq(data, 17, 20) \in {IfaceUnicast(i), DirectedBroadcast(i), <<255, 255, 255, 255>>}

\* C11: ip_input accepts a datagram exactly when it has at least the
\* minimum header, version 4, IHL*4 and total length within len, a header
\* checksum that sums to zero, MF and fragment offset zero, and a
\* destination that is the unicast or the directed broadcast of the
\* receiving device's IP interface or 255.255.255.255; and a call of
\* ip_input, accepting or not, changes nothing of the stack's state.
C11_InputAccepts ==
  /\ [](ipIn # NoVerdict => (ipIn.verdict = "accept" <=> Acceptable(ipIn.data, ipIn.dev)))
  /\ [][ipIn' # ipIn =>
          UNCHANGED <<intrVars, mainVars, protoVars, devVars, memVars, ifaces, ipNext, ipId>>]_vars

\* ip_input has accepted a datagram longer than its total length, received
\* on a device with an IP interface.
C11_Witness ==
  /\ ipIn.verdict = "accept"
  /\ Len(ipIn.data) > 256 * ipIn.data[3] + ipIn.data[4]
  /\ IpIfacesOf(ipIn.dev) # {}

\* The threads that hold an id they have drawn.
Holding == {t \in OutThreads : opc[t] \in {"incr", "unlock", "core"}}

\* C21: the k-th id drawn, k counted from 0 over all threads, is
\* (128 + k) mod 65536; between draws the counter holds the value of the
\* next one; and two threads that are in ip_output at once hold different
\* ids.
C21_IdDraws ==
  /\ \A j \in 1..Len(draws) : draws[j] = (128 + nBefore + (j - 1)) % 65536
  /\ (\A t \in OutThreads : opc[t] # "incr") =>
        ipId = (128 + nBefore + Len(draws)) % 65536
  /\ \A t \in Holding, u \in Holding : t # u => oid[t] # oid[u]

\* Both threads are in ip_output with the ids they drew, one on each side
\* of the wrap of the counter: 65535, then 0.
C21_Witness ==
  /\ Holding = OutThreads
  /\ draws = <<65535, 0>>
  /\ nBefore + 128 = 65535

\* Device d is UP, before and after the step.
IsUp(d) == NET_DEVICE_IS_UP(dev[d].flags)
IsUpNext(d) == NET_DEVICE_IS_UP(dev'[d].flags)
\* net_device_open or net_device_close has run on device d in this step.
OpenOrClose(d) == hookEv'[d] # hookEv[d] \/ dev'[d].flags # dev[d].flags

\* The UP flag against the hooks, for one call on device d: an open on a
\* device that is UP fails and calls no hook; an open on a device that is
\* not UP calls the hook if there is one and sets UP exactly when there is
\* none or it succeeded; a close likewise with UP and not UP exchanged.
FlagFollowsHook(d) ==
  LET e == hookEv'[d]
      hookOk == e.called /\ e.ret = 0
  IN  /\ e.op \in {"open", "close"}
      /\ (e.op = "open" /\ IsUp(d)) => (e.ret = -1 /\ ~e.called /\ IsUpNext(d))
      /\ (e.op = "open" /\ ~IsUp(d)) =>
            /\ e.called <=> DevHasHook(d, "open")
            /\ IsUpNext(d) <=> (~DevHasHook(d, "open") \/ hookOk)
            /\ (e.called /\ e.ret = -1) => ~IsUpNext(d)
      /\ (e.op = "close" /\ ~IsUp(d)) => (e.ret = -1 /\ ~e.called /\ ~IsUpNext(d))
      /\ (e.op = "close" /\ IsUp(d)) =>
            /\ e.called <=> DevHasHook(d, "close")
            /\ ~IsUpNext(d) <=> (~DevHasHook(d, "close") \/ hookOk)
            /\ (e.called /\ e.ret = -1) => IsUpNext(d)

\* C22 as stated: the flag follows the hooks as above, and the hooks that
\* succeed on a device alternate, the first of them an open hook.
C22_Original ==
  /\ [][\A d \in Devices : OpenOrClose(d) => FlagFollowsHook(d)]_vars
  /\ [](\A d \in Devices :
          (hookEv[d].called /\ hookEv[d].ret = 0) =>
            /\ hookEv[d].lastOk # hookEv[d].op
            /\ hookEv[d].lastOk = "none" => hookEv[d].op = "open")

\* C22 amended: the flag follows the hooks as above, and the calls that
\* return success alternate per device, the first of them an open: an open
\* returns 0 only on a device that is not UP and sets UP, a close returns 0
\* only on a device that is UP and clears it, and nothing else changes the
\* flag. The hooks that succeed need not start with an open hook.
C22_OpenClose ==
  [][\A d \in Devices : OpenOrClose(d) =>
       /\ FlagFollowsHook(d)
       /\ hookEv'[d].ret = 0 <=> (IsUpNext(d) # IsUp(d))
       /\ hookEv'[d].ret = 0 => (IsUpNext(d) <=> hookEv'[d].op = "open")]_vars

\* net_run has run again after a close hook failed: the open of a device
\* that was still UP failed without a hook call, while a device without an
\* open hook, whose close hook had succeeded, was opened again.
C22_Witness ==
  \E d \in Devices, c \in Devices :
    /\ hookEv[d].op = "open" /\ hookEv[d].ret = -1 /\ ~hookEv[d].called
    /\ DevHasHook(d, "open") /\ IsUp(d)
    /\ hookEv[c].op = "open" /\ hookEv[c].ret = 0 /\ ~hookEv[c].called
    /\ hookEv[c].lastOk = "close" /\ IsUp(c)

=============================================================================
